---- MODULE Spec2Model ----
(***************************************************************************)
(* Model of the distance-vector routing engine RIPRouter                   *)
(* (src/rip_router.py).  One action per kind of received packet; each      *)
(* action is the whole handler, including the _announce() it calls.        *)
(*                                                                         *)
(* A route is the Python tuple (distance, port): <<distance, port>>, so    *)
(* Python's r[0] is r[1] here and r[1] is r[2].  A Python dict is a        *)
(* function; the outer dict's insertion order, which decides ties in the   *)
(* scans of _handleDataPacket and _announce, is kept in keyOrder.          *)
(***************************************************************************)
EXTENDS Integers, Sequences, FiniteSets, TLC

\* ---- bounds of the model ------------------------------------------------
MaxLatency == 1          \* link latencies are 1..MaxLatency

\* ---- the inputs ---------------------------------------------------------
Routers == {"A", "B"}    \* identities: neighbors and destinations
Ports == {1, 2}          \* local ports
Payloads == {"x", "y"}   \* opaque contents of data packets

Latencies == 1..MaxLatency

\* distances a neighbor advertises: below, equal to and above one another,
\* and 0, which makes the candidate for the neighbor itself tie with its
\* self-entry
AdvertisedDistances == {0, 1, 2}

\* ---- packets ------------------------------------------------------------
\* RoutingUpdate.paths: a dict destination -> distance
PathSets == UNION {[S -> AdvertisedDistances] : S \in SUBSET Routers}

\* DiscoveryPacket: a link-up carries the latency of the link
DiscoveryPackets ==
    [kind : {"discovery"}, src : Routers, is_link_up : {TRUE},
     latency : Latencies]
    \cup [kind : {"discovery"}, src : Routers, is_link_up : {FALSE}]

RoutingUpdates == [kind : {"update"}, src : Routers, paths : PathSets]

DataPackets == [kind : {"data"}, dst : Routers, payload : Payloads]

VARIABLES
    routingTable,   \* self.routingTable: neighbor -> (destination -> route)
    keyOrder,       \* insertion order of the keys of self.routingTable
    rx,             \* the last (packet, port) given to handle_rx
    sent,           \* the self.send calls made while handling rx, in order
    announced,      \* number of _announce() calls made while handling rx
    updated,        \* the flag `updated` of _handleRoutingUpdate for rx
    raised,         \* an exception left the handler of rx
    linkUp,         \* history: neighbor -> (latency, port) of its link-up
                    \* when no link-down followed it
    advertised,     \* history: neighbor -> (destination other than the
                    \* neighbor -> the smallest distance the neighbor
                    \* advertised for it since its link-up)
    lostDests       \* history: the destinations that only the route set
                    \* removed by a link-down held, while only data packets
                    \* have been handled since that link-down

vars == <<routingTable, keyOrder, rx, sent, announced, updated, raised,
          linkUp, advertised, lostDests>>

Keys(table) == DOMAIN table

Range(s) == {s[i] : i \in 1..Len(s)}

\* ---- _announce ----------------------------------------------------------
\* one pass of the inner loop of lines 102-105 over one neighbor's routes
MergeShortest(acc, routes) ==
    [dest \in DOMAIN acc \cup DOMAIN routes |->
        IF dest \in DOMAIN routes
           /\ (dest \notin DOMAIN acc \/ acc[dest][1] > routes[dest][1])
        THEN routes[dest]
        ELSE acc[dest]]

RECURSIVE ShortestUpTo(_, _, _)
ShortestUpTo(table, order, n) ==
    IF n = 0 THEN <<>>
    ELSE MergeShortest(ShortestUpTo(table, order, n - 1), table[order[n]])

\* all_shortest_paths after the loop of lines 102-105
AllShortestPaths(table, order) == ShortestUpTo(table, order, Len(order))

\* variant: the test of line 112 is dropped, every destination is advertised
UpdatePacketFor_NoSplitHorizon(shortest, neighbor_port) ==
    [dest \in DOMAIN shortest |-> shortest[dest][1]]

\* variant: the test of line 112 is inverted
UpdatePacketFor_OwnPortOnly(shortest, neighbor_port) ==
    LET kept == {dest \in DOMAIN shortest : shortest[dest][2] = neighbor_port}
    IN  [dest \in kept |-> shortest[dest][1]]

\* the update packet built for a neighbor whose port is neighbor_port
UpdatePacketFor(shortest, neighbor_port) ==
    LET kept == {dest \in DOMAIN shortest : shortest[dest][2] # neighbor_port}
    IN  [dest \in kept |-> shortest[dest][1]]

\* neighbor_routes[neighbor] raises KeyError when the self-entry is missing
HasSelfEntry(table, neighbor) ==
    neighbor \in DOMAIN table /\ neighbor \in DOMAIN table[neighbor]

\* number of neighbors served before the loop of lines 107-118 ends or raises
AnnounceCount(table, order) ==
    LET bad == {i \in 1..Len(order) : ~HasSelfEntry(table, order[i])}
    IN  IF bad = {} THEN Len(order)
        ELSE (CHOOSE i \in bad : \A j \in bad : i <= j) - 1

AnnounceRaises(table, order) == AnnounceCount(table, order) < Len(order)

\* variant: an advertisement left empty by split horizon is not sent
Announce_SkipEmpty(table, order) ==
    LET shortest == AllShortestPaths(table, order)
        all == [i \in 1..AnnounceCount(table, order) |->
                  LET neighbor_port == table[order[i]][order[i]][2]
                  IN  [kind  |-> "update",
                       port  |-> neighbor_port,
                       paths |-> UpdatePacketFor(shortest, neighbor_port)]]
    IN  SelectSeq(all, LAMBDA m : DOMAIN m.paths # {})

\* the sends of one _announce() call
Announce(table, order) ==
    LET shortest == AllShortestPaths(table, order)
    IN  [i \in 1..AnnounceCount(table, order) |->
            LET neighbor_port == table[order[i]][order[i]][2]
            IN  [kind  |-> "update",
                 port  |-> neighbor_port,
                 paths |-> UpdatePacketFor(shortest, neighbor_port)]]

\* ---- _handleDiscoveryPacket ---------------------------------------------
\* variant: line 45 keeps the routes already learned through the neighbor
LinkUpTable_KeepLearned(table, src, latency, port) ==
    [k \in Keys(table) \cup {src} |->
        IF k = src
        THEN [d \in (IF src \in Keys(table) THEN DOMAIN table[src] ELSE {})
                      \cup {src} |->
                IF d = src THEN <<latency, port>> ELSE table[src][d]]
        ELSE table[k]]

LinkUpTable(table, src, latency, port) ==
    [k \in Keys(table) \cup {src} |->
        IF k = src THEN [d \in {src} |-> <<latency, port>>] ELSE table[k]]

LinkUpOrder(table, order, src) ==
    IF src \in Keys(table) THEN order ELSE Append(order, src)

\* variant: line 50 leaves the neighbor in the table
LinkDownTable_Keep(table, src) == table

\* variant: line 50 removes the neighbor's self-entry only
LinkDownTable_SelfOnly(table, src) ==
    [k \in Keys(table) |->
        IF k = src THEN [d \in DOMAIN table[k] \ {src} |-> table[k][d]]
        ELSE table[k]]

LinkDownTable(table, src) == [k \in Keys(table) \ {src} |-> table[k]]

LinkDownOrder(order, src) == SelectSeq(order, LAMBDA k : k # src)

HandleLinkUp(packet, port) ==
    LET table == LinkUpTable(routingTable, packet.src, packet.latency, port)
        order == LinkUpOrder(routingTable, keyOrder, packet.src)
    IN  /\ routingTable' = table
        /\ keyOrder' = order
        /\ sent' = Announce(table, order)
        /\ announced' = 1
        /\ raised' = AnnounceRaises(table, order)
        /\ linkUp' = [n \in DOMAIN linkUp \cup {packet.src} |->
                        IF n = packet.src THEN <<packet.latency, port>>
                        ELSE linkUp[n]]
        /\ advertised' = [n \in DOMAIN advertised \cup {packet.src} |->
                            IF n = packet.src THEN <<>> ELSE advertised[n]]
        /\ lostDests' = {}

\* destinations held by src's route set and by no other neighbor's
OnlyVia(table, src) ==
    {d \in DOMAIN table[src] :
        \A k \in Keys(table) \ {src} : d \notin DOMAIN table[k]}

\* variant: lines 50 and 51 are swapped, the announcement precedes the pop
HandleLinkDown_AnnounceFirst(packet, port) ==
    /\ linkUp' = [n \in DOMAIN linkUp \ {packet.src} |-> linkUp[n]]
    /\ advertised' = [n \in DOMAIN advertised \ {packet.src} |->
                        advertised[n]]
    /\ IF packet.src \in Keys(routingTable)
       THEN /\ routingTable' = LinkDownTable(routingTable, packet.src)
            /\ keyOrder' = LinkDownOrder(keyOrder, packet.src)
            /\ sent' = Announce(routingTable, keyOrder)
            /\ announced' = 1
            /\ raised' = AnnounceRaises(routingTable, keyOrder)
            /\ lostDests' = OnlyVia(routingTable, packet.src)
       ELSE /\ UNCHANGED <<routingTable, keyOrder>>
            /\ lostDests' = {}
            /\ sent' = <<>>
            /\ announced' = 0
            /\ raised' = FALSE

\* variant: line 49 is dropped, every link-down announces
HandleLinkDown_Unguarded(packet, port) ==
    LET table == LinkDownTable(routingTable, packet.src)
        order == LinkDownOrder(keyOrder, packet.src)
    IN  /\ linkUp' = [n \in DOMAIN linkUp \ {packet.src} |-> linkUp[n]]
        /\ advertised' = [n \in DOMAIN advertised \ {packet.src} |->
                            advertised[n]]
        /\ routingTable' = table
        /\ keyOrder' = order
        /\ sent' = Announce(table, order)
        /\ announced' = 1
        /\ raised' = AnnounceRaises(table, order)
        /\ lostDests' = {}

HandleLinkDown(packet, port) ==
    /\ linkUp' = [n \in DOMAIN linkUp \ {packet.src} |-> linkUp[n]]
    /\ advertised' = [n \in DOMAIN advertised \ {packet.src} |->
                        advertised[n]]
    /\ IF packet.src \in Keys(routingTable)
       THEN LET table == LinkDownTable(routingTable, packet.src)
                order == LinkDownOrder(keyOrder, packet.src)
            IN  /\ routingTable' = table
                /\ keyOrder' = order
                /\ sent' = Announce(table, order)
                /\ announced' = 1
                /\ raised' = AnnounceRaises(table, order)
                /\ lostDests' = OnlyVia(routingTable, packet.src)
       ELSE /\ UNCHANGED <<routingTable, keyOrder>>
            /\ lostDests' = {}
            /\ sent' = <<>>
            /\ announced' = 0
            /\ raised' = FALSE

\* _handleDiscoveryPacket(packet, port)
OnDiscoveryPacket(packet, port) ==
    /\ rx' = [packet |-> packet, port |-> port]
    /\ updated' = FALSE
    /\ IF packet.is_link_up
       THEN HandleLinkUp(packet, port)
       ELSE HandleLinkDown(packet, port)

HandleDiscoveryPacket ==
    \E packet \in DiscoveryPackets, port \in Ports :
        OnDiscoveryPacket(packet, port)

\* ---- _handleRoutingUpdate ----------------------------------------------
\* variant: line 67 forgets the distance of the link to the neighbor
NewDistance_NoLink(table, src, paths, dest) == paths[dest]

\* new_distance of line 67
NewDistance(table, src, paths, dest) == paths[dest] + table[src][src][1]

\* variant: line 68 overwrites whenever the candidate differs
Improves_Differs(table, src, paths, dest) ==
    \/ dest \notin DOMAIN table[src]
    \/ table[src][dest][1] # NewDistance(table, src, paths, dest)

\* variant: line 68 compares with >= and so overwrites on ties
Improves_OrEqual(table, src, paths, dest) ==
    \/ dest \notin DOMAIN table[src]
    \/ table[src][dest][1] >= NewDistance(table, src, paths, dest)

\* the condition of line 68, on the neighbor's routes before the loop (each
\* destination occurs once in a packet, so the iterations are independent)
Improves(table, src, paths, dest) ==
    \/ dest \notin DOMAIN table[src]
    \/ table[src][dest][1] > NewDistance(table, src, paths, dest)

\* variant: every advertised destination is overwritten, improving or not
MergedRoutes_Overwrite(table, src, paths, port) ==
    [dest \in DOMAIN table[src] \cup DOMAIN paths |->
        IF dest \in DOMAIN paths
        THEN <<NewDistance(table, src, paths, dest), port>>
        ELSE table[src][dest]]

\* variant: destinations missing from the advertisement are withdrawn
MergedRoutes_Withdraw(table, src, paths, port) ==
    [dest \in {src} \cup DOMAIN paths |->
        IF dest \in DOMAIN paths /\ Improves(table, src, paths, dest)
        THEN <<NewDistance(table, src, paths, dest), port>>
        ELSE table[src][dest]]

\* neighbor_info after the loop of lines 66-70
MergedRoutes(table, src, paths, port) ==
    [dest \in DOMAIN table[src] \cup DOMAIN paths |->
        IF dest \in DOMAIN paths /\ Improves(table, src, paths, dest)
        THEN <<NewDistance(table, src, paths, dest), port>>
        ELSE table[src][dest]]

\* variant: the flag is set only when every advertised destination improves
UpdatedFlag_All(table, src, paths) ==
    /\ DOMAIN paths # {}
    /\ \A dest \in DOMAIN paths : Improves(table, src, paths, dest)

\* the flag `updated` after the loop of lines 66-70
UpdatedFlag(table, src, paths) ==
    \E dest \in DOMAIN paths : Improves(table, src, paths, dest)

\* variant: line 58 lets every source through
KnownNeighbor_Always(table, src) == TRUE

\* the test of line 58
KnownNeighbor(table, src) == src \in Keys(table)

\* the history of advertised distances after an advertisement of src
Heard(history, src, paths) ==
    IF src \notin DOMAIN history THEN history
    ELSE [history EXCEPT ![src] =
            [d \in DOMAIN history[src] \cup (DOMAIN paths \ {src}) |->
                IF d \notin DOMAIN paths THEN history[src][d]
                ELSE IF d \notin DOMAIN history[src] THEN paths[d]
                ELSE IF paths[d] < history[src][d] THEN paths[d]
                ELSE history[src][d]]]

\* _handleRoutingUpdate(packet, port)
OnRoutingUpdate(packet, port) ==
    /\ rx' = [packet |-> packet, port |-> port]
    /\ UNCHANGED <<keyOrder, linkUp>>
    /\ advertised' = Heard(advertised, packet.src, packet.paths)
    /\ lostDests' = {}
    /\ IF ~KnownNeighbor(routingTable, packet.src)
       THEN /\ UNCHANGED routingTable
            /\ sent' = <<>>
            /\ announced' = 0
            /\ updated' = FALSE
            /\ raised' = FALSE
       ELSE IF ~HasSelfEntry(routingTable, packet.src)
       THEN \* lines 63, 67 raise KeyError
            /\ UNCHANGED routingTable
            /\ sent' = <<>>
            /\ announced' = 0
            /\ updated' = FALSE
            /\ raised' = (packet.src \notin Keys(routingTable)
                          \/ DOMAIN packet.paths # {})
       ELSE IF UpdatedFlag(routingTable, packet.src, packet.paths)
       THEN LET table == [routingTable EXCEPT ![packet.src] =
                            MergedRoutes(routingTable, packet.src,
                                         packet.paths, port)]
            IN  /\ routingTable' = table
                /\ sent' = Announce(table, keyOrder)
                /\ announced' = 1
                /\ updated' = TRUE
                /\ raised' = AnnounceRaises(table, keyOrder)
       ELSE /\ UNCHANGED routingTable
            /\ sent' = <<>>
            /\ announced' = 0
            /\ updated' = FALSE
            /\ raised' = FALSE

HandleRoutingUpdate ==
    \E packet \in RoutingUpdates, port \in Ports :
        OnRoutingUpdate(packet, port)

\* ---- _handleDataPacket --------------------------------------------------
NoPath == <<>>     \* shortest_path = None

\* variant: the comparison of line 86 is reversed
ScanStep_Farthest(shortest_path, routes, dst) ==
    IF dst \in DOMAIN routes
       /\ (shortest_path = NoPath \/ routes[dst][1] > shortest_path[1])
    THEN routes[dst]
    ELSE shortest_path

\* one iteration of the loop of lines 84-87
ScanStep(shortest_path, routes, dst) ==
    IF dst \in DOMAIN routes
       /\ (shortest_path = NoPath \/ routes[dst][1] < shortest_path[1])
    THEN routes[dst]
    ELSE shortest_path

RECURSIVE ScanUpTo(_, _, _, _)
ScanUpTo(table, order, dst, n) ==
    IF n = 0 THEN NoPath
    ELSE ScanStep(ScanUpTo(table, order, dst, n - 1), table[order[n]], dst)

\* variant: without a route the first neighbor's link is used as a default
ShortestPath_Default(table, order, dst) ==
    LET found == ScanUpTo(table, order, dst, Len(order))
    IN  IF found = NoPath /\ Len(order) > 0
        THEN table[order[1]][order[1]]
        ELSE found

\* shortest_path after the loop of lines 84-87
ShortestPath(table, order, dst) == ScanUpTo(table, order, dst, Len(order))

\* _handleDataPacket(packet, port)
OnDataPacket(packet, port) ==
    /\ rx' = [packet |-> packet, port |-> port]
    /\ UNCHANGED <<routingTable, keyOrder, linkUp, advertised, lostDests>>
    /\ announced' = 0
    /\ updated' = FALSE
    /\ raised' = FALSE
    /\ LET shortest_path == ShortestPath(routingTable, keyOrder, packet.dst)
       IN  sent' = IF shortest_path # NoPath
                   THEN <<[kind |-> "data", port |-> shortest_path[2],
                           packet |-> packet]>>
                   ELSE <<>>

HandleDataPacket ==
    \E packet \in DataPackets, port \in Ports :
        OnDataPacket(packet, port)

\* ---- the specification ---------------------------------------------------
Init ==
    /\ routingTable = <<>>
    /\ keyOrder = <<>>
    /\ rx = [packet |-> [kind |-> "none"], port |-> 0]
    /\ sent = <<>>
    /\ announced = 0
    /\ updated = FALSE
    /\ raised = FALSE
    /\ linkUp = <<>>
    /\ advertised = <<>>
    /\ lostDests = {}

\* handle_rx: one packet is handled to completion
Next ==
    \/ HandleDiscoveryPacket
    \/ HandleRoutingUpdate
    \/ HandleDataPacket

Spec == Init /\ [][Next]_vars

\* ---- the engine with a third destination --------------------------------
\* The same handlers with a destination C that is never a neighbor, so that
\* an advertisement can improve one learned destination while it leaves out
\* another; one port and two advertised distances keep the state space small.
WideDests == Routers \cup {"C"}
WidePorts == {1}
WideDistances == {0, 1}

WideRoutingUpdates ==
    [kind : {"update"}, src : Routers,
     paths : UNION {[S -> WideDistances] : S \in SUBSET WideDests}]

WideDataPackets == [kind : {"data"}, dst : WideDests, payload : Payloads]

WideDiscoveryPacket ==
    \E packet \in DiscoveryPackets, port \in WidePorts :
        OnDiscoveryPacket(packet, port)

WideRoutingUpdate ==
    \E packet \in WideRoutingUpdates, port \in WidePorts :
        OnRoutingUpdate(packet, port)

WideDataPacket ==
    \E packet \in WideDataPackets, port \in WidePorts :
        OnDataPacket(packet, port)

NextWide ==
    \/ WideDiscoveryPacket
    \/ WideRoutingUpdate
    \/ WideDataPacket

SpecWide == Init /\ [][NextWide]_vars

\* ---- the engine when advertisements arrive on the link's port -----------
\* An advertisement of a neighbor arrives on the port of that neighbor's
\* most recent link-up.
LinkPortRoutingUpdate ==
    \E packet \in RoutingUpdates, port \in Ports :
        /\ packet.src \in DOMAIN linkUp => port = linkUp[packet.src][2]
        /\ OnRoutingUpdate(packet, port)

NextLinkPort ==
    \/ HandleDiscoveryPacket
    \/ LinkPortRoutingUpdate
    \/ HandleDataPacket

SpecLinkPort == Init /\ [][NextLinkPort]_vars

\* ---- vocabulary of the properties ---------------------------------------
\* the neighbors whose route set holds destination d
Holders(d) == {n \in Keys(routingTable) : d \in DOMAIN routingTable[n]}

\* the minimum stored distance to d across all neighbor sets
MinDistance(d) ==
    CHOOSE m \in {routingTable[n][d][1] : n \in Holders(d)} :
        \A n \in Holders(d) : m <= routingTable[n][d][1]

Position(n) == CHOOSE i \in 1..Len(keyOrder) : keyOrder[i] = n

\* the globally-best route to d: a minimum-distance route, that of the
\* neighbor that entered the table first when several attain the minimum
BestHolder(d) ==
    CHOOSE n \in Holders(d) :
        /\ routingTable[n][d][1] = MinDistance(d)
        /\ \A k \in Holders(d) :
              routingTable[k][d][1] = MinDistance(d)
                  => Position(n) <= Position(k)

BestRoute(d) == routingTable[BestHolder(d)][d]

SelfPort(n) == routingTable[n][n][2]

IsLinkUp(r) == r.packet.kind = "discovery" /\ r.packet.is_link_up
IsLinkDown(r) == r.packet.kind = "discovery" /\ ~r.packet.is_link_up
IsUpdate(r) == r.packet.kind = "update"
IsData(r) == r.packet.kind = "data"

\* ---- C1 -----------------------------------------------------------------
\* the advertisement split horizon prescribes for a neighbor on port P
ExpectedPaths(P) ==
    [d \in {d \in Routers : Holders(d) # {} /\ BestRoute(d)[2] # P} |->
        MinDistance(d)]

\* C1: split horizon.  Whenever the Announcer has run, every neighbor N of
\* the table, with self-entry port P, is sent an advertisement, and every
\* advertisement sent out P lists exactly the destinations whose globally
\* best route (minimum distance, first neighbor of the table on ties) has a
\* port other than P, each with its minimum stored distance.
C1_SplitHorizon ==
    announced = 1 =>
        \A N \in Keys(routingTable) :
            /\ \E i \in 1..Len(sent) : sent[i].port = SelfPort(N)
            /\ \A i \in 1..Len(sent) :
                  sent[i].port = SelfPort(N)
                      => /\ sent[i].kind = "update"
                         /\ sent[i].paths = ExpectedPaths(SelfPort(N))

\* two neighbors on different ports; one is sent an advertisement that omits
\* a destination (best route on its own port) and lists another
C1_Witness ==
    /\ announced = 1
    /\ \E N \in Keys(routingTable), i \in 1..Len(sent) :
          /\ sent[i].port = SelfPort(N)
          /\ DOMAIN sent[i].paths # {}
          /\ \E d \in Routers :
                /\ Holders(d) # {}
                /\ BestRoute(d)[2] = SelfPort(N)
                /\ d \notin DOMAIN sent[i].paths

\* ---- C2 -----------------------------------------------------------------
\* C2: forwarder.  A data packet whose destination some neighbor set holds
\* is sent exactly once, unchanged, out the port of a route to it whose
\* distance is the minimum over all neighbor sets; the table stays as it
\* was and no advertisement is sent.
C2_Forwarder ==
    [][ (IsData(rx') /\ Holders(rx'.packet.dst) # {}) =>
            /\ Len(sent') = 1
            /\ sent'[1].kind = "data"
            /\ sent'[1].packet = rx'.packet
            /\ \E n \in Holders(rx'.packet.dst) :
                  routingTable[n][rx'.packet.dst] =
                      <<MinDistance(rx'.packet.dst), sent'[1].port>>
            /\ routingTable' = routingTable
            /\ announced' = 0 ]_vars

\* a data packet was forwarded while two neighbors held its destination at
\* different distances and on different ports
C2_Witness ==
    /\ IsData(rx)
    /\ Len(sent) = 1
    /\ \E n, k \in Holders(rx.packet.dst) :
          /\ routingTable[n][rx.packet.dst][1] < routingTable[k][rx.packet.dst][1]
          /\ routingTable[n][rx.packet.dst][2] # routingTable[k][rx.packet.dst][2]

\* ---- C3 -----------------------------------------------------------------
\* candidate = advertised distance + the direct link distance of the source
Candidate(r, dest) ==
    r.packet.paths[dest] + routingTable[r.packet.src][r.packet.src][1]

\* C3: merge rule.  Handling an advertisement from a neighbor N of the
\* table: an advertised destination that N's set lacks, or holds at a
\* distance strictly greater than the candidate, gets (candidate, arrival
\* port), its stored distance strictly decreases and the change flag is
\* set; one held at a distance equal to or smaller than the candidate keeps
\* its stored distance and port.
C3_MergeRule ==
    [][ (IsUpdate(rx') /\ rx'.packet.src \in Keys(routingTable)) =>
          LET N == rx'.packet.src
          IN  \A dest \in DOMAIN rx'.packet.paths :
                IF dest \notin DOMAIN routingTable[N]
                THEN /\ N \in Keys(routingTable')
                     /\ dest \in DOMAIN routingTable'[N]
                     /\ routingTable'[N][dest] =
                            <<Candidate(rx', dest), rx'.port>>
                     /\ updated'
                ELSE IF routingTable[N][dest][1] > Candidate(rx', dest)
                THEN /\ N \in Keys(routingTable')
                     /\ dest \in DOMAIN routingTable'[N]
                     /\ routingTable'[N][dest] =
                            <<Candidate(rx', dest), rx'.port>>
                     /\ routingTable'[N][dest][1] < routingTable[N][dest][1]
                     /\ updated'
                ELSE /\ N \in Keys(routingTable')
                     /\ dest \in DOMAIN routingTable'[N]
                     /\ routingTable'[N][dest] = routingTable[N][dest] ]_vars

\* an advertisement was merged that improved one destination and, for
\* another, offered a candidate equal to the stored distance on a port
\* other than the stored one
C3_Witness ==
    /\ IsUpdate(rx)
    /\ rx.packet.src \in Keys(routingTable)
    /\ updated
    /\ \E d, e \in DOMAIN rx.packet.paths :
          /\ routingTable[rx.packet.src][d] = <<Candidate(rx, d), rx.port>>
          /\ d # rx.packet.src
          /\ routingTable[rx.packet.src][e][1] = Candidate(rx, e)
          /\ routingTable[rx.packet.src][e][2] # rx.port

\* ---- C4 -----------------------------------------------------------------
\* C4: neighbor keys.  The table starts empty, and in every reachable state
\* the keys of the table are exactly the neighbors for which a link-up was
\* received with no link-down after it (linkUp records exactly those, and
\* only discovery packets change it, so data packets and advertisements
\* neither add nor remove a key).
C4_NeighborKeys ==
    /\ rx.packet.kind = "none" => routingTable = <<>>
    /\ Keys(routingTable) = DOMAIN linkUp
    /\ Range(keyOrder) = Keys(routingTable)
    /\ Len(keyOrder) = Cardinality(Keys(routingTable))

\* a link-down removed one neighbor while another stayed in the table
C4_Witness ==
    /\ IsLinkDown(rx)
    /\ announced = 1
    /\ rx.packet.src \notin Keys(routingTable)
    /\ Keys(routingTable) # {}

\* ---- C5 -----------------------------------------------------------------
\* C5: self-entry.  In every reachable state every neighbor N of the table
\* holds an entry for N itself, equal to the (distance, port) of N's most
\* recent link-up, and no handler has raised on a missing self-entry.
C5_SelfEntry ==
    /\ ~raised
    /\ \A N \in Keys(routingTable) :
          /\ N \in DOMAIN routingTable[N]
          /\ N \in DOMAIN linkUp
          /\ routingTable[N][N] = linkUp[N]

\* an advertisement from N that lists N itself at distance 0, arriving on a
\* port other than N's, changed N's route set
C5_Witness ==
    /\ IsUpdate(rx)
    /\ rx.packet.src \in Keys(routingTable)
    /\ updated
    /\ rx.packet.src \in DOMAIN rx.packet.paths
    /\ rx.packet.paths[rx.packet.src] = 0
    /\ rx.port # routingTable[rx.packet.src][rx.packet.src][2]

\* ---- C6 -----------------------------------------------------------------
\* C6: link-up.  A link-up (N, d, port) leaves the route set of N equal to
\* {N: (d, port)} whether or not N was a key, leaves every other neighbor's
\* route set as it was, and invokes the Announcer, which sends one
\* advertisement per neighbor.
C6_LinkUp ==
    [][ IsLinkUp(rx') =>
          LET N == rx'.packet.src
          IN  /\ Keys(routingTable') = Keys(routingTable) \cup {N}
              /\ routingTable'[N] =
                    [d \in {N} |-> <<rx'.packet.latency, rx'.port>>]
              /\ \A k \in Keys(routingTable) \ {N} :
                    routingTable'[k] = routingTable[k]
              /\ announced' = 1
              /\ Len(sent') = Cardinality(Keys(routingTable')) ]_vars

\* a link-up was handled and announced to two neighbors, the other of which
\* keeps the destinations it had learned
C6_Witness ==
    /\ IsLinkUp(rx)
    /\ announced = 1
    /\ Len(sent) = 2
    /\ DOMAIN routingTable[rx.packet.src] = {rx.packet.src}
    /\ \E k \in Keys(routingTable) \ {rx.packet.src} :
          DOMAIN routingTable[k] = Routers

\* ---- C7 -----------------------------------------------------------------
\* C7: link-down.  A link-down for a neighbor N of the table removes N's
\* whole route set, so N is no key afterward, and a data packet that follows
\* for a destination that only N's set held is dropped: nothing is sent.
C7_LinkDown ==
    [][ /\ (IsLinkDown(rx') /\ rx'.packet.src \in Keys(routingTable)) =>
              /\ rx'.packet.src \notin Keys(routingTable')
              /\ Keys(routingTable') = Keys(routingTable) \ {rx'.packet.src}
              /\ lostDests' = OnlyVia(routingTable, rx'.packet.src)
        /\ (IsData(rx') /\ rx'.packet.dst \in lostDests) =>
              /\ sent' = <<>>
              /\ ~raised' ]_vars

\* after a link-down that left another neighbor in the table, a data packet
\* for a destination held only by the removed set was dropped
C7_Witness ==
    /\ IsData(rx)
    /\ rx.packet.dst \in lostDests
    /\ sent = <<>>
    /\ Keys(routingTable) # {}

\* ---- C8 -----------------------------------------------------------------
\* C8: suppression.  Handling an advertisement from a neighbor of the table
\* invokes the Announcer, once, exactly when some advertised destination was
\* added or had its stored distance strictly lowered; when none was, the
\* table is unchanged and nothing is sent.  One improving entry among
\* non-improving ones is enough for the single invocation.
C8_Suppression ==
    [][ (IsUpdate(rx') /\ rx'.packet.src \in Keys(routingTable)) =>
          LET N == rx'.packet.src
              changed ==
                {d \in DOMAIN rx'.packet.paths \cap DOMAIN routingTable'[N] :
                    \/ d \notin DOMAIN routingTable[N]
                    \/ routingTable'[N][d][1] < routingTable[N][d][1]}
              improving ==
                {d \in DOMAIN rx'.packet.paths :
                    \/ d \notin DOMAIN routingTable[N]
                    \/ routingTable[N][d][1] > Candidate(rx', d)}
          IN  /\ announced' \in {0, 1}
              /\ announced' = 1 <=> changed # {}
              /\ changed = {} => routingTable' = routingTable /\ sent' = <<>>
              /\ improving # {} =>
                    /\ announced' = 1
                    /\ Len(sent') = Cardinality(Keys(routingTable')) ]_vars

\* an advertisement with one improving and one non-improving entry was
\* merged and announced once
C8_Witness ==
    /\ IsUpdate(rx)
    /\ rx.packet.src \in Keys(routingTable)
    /\ announced = 1
    /\ Len(sent) = Cardinality(Keys(routingTable))
    /\ \E d, e \in DOMAIN rx.packet.paths :
          /\ routingTable[rx.packet.src][d] = <<Candidate(rx, d), rx.port>>
          /\ d # rx.packet.src
          /\ routingTable[rx.packet.src][e][1] < Candidate(rx, e)

\* ---- C9 -----------------------------------------------------------------
\* C9: one advertisement per neighbor.  An invocation of the Announcer sends
\* as many advertisements as the table has keys (none for an empty table),
\* and out every port as many as there are neighbors whose self-entry has
\* that port, also when an advertisement has no entries; without an
\* invocation no advertisement is sent.
C9_OnePerNeighbor ==
    /\ announced \in {0, 1}
    /\ announced = 0 => \A i \in 1..Len(sent) : sent[i].kind # "update"
    /\ announced = 1 =>
          /\ Len(sent) = Cardinality(Keys(routingTable))
          /\ \A i \in 1..Len(sent) : sent[i].kind = "update"
          /\ \A p \in Ports :
                Cardinality({i \in 1..Len(sent) : sent[i].port = p})
                  = Cardinality({n \in Keys(routingTable) : SelfPort(n) = p})

\* the Announcer sent an advertisement with no entries
C9_Witness ==
    /\ announced = 1
    /\ \E i \in 1..Len(sent) : DOMAIN sent[i].paths = {}

\* ---- C10 ----------------------------------------------------------------
\* C10: unknown neighbor.  An advertisement whose source is no key of the
\* table leaves the table as it was, sends nothing, invokes no Announcer and
\* raises nothing.
C10_UnknownNeighbor ==
    [][ (IsUpdate(rx') /\ rx'.packet.src \notin Keys(routingTable)) =>
          /\ routingTable' = routingTable
          /\ keyOrder' = keyOrder
          /\ sent' = <<>>
          /\ announced' = 0
          /\ ~updated'
          /\ ~raised' ]_vars

\* an advertisement with entries came from a router that had been linked
\* down, while another neighbor was in the table
C10_Witness ==
    /\ IsUpdate(rx)
    /\ rx.packet.src \notin Keys(routingTable)
    /\ DOMAIN rx.packet.paths # {}
    /\ Keys(routingTable) # {}
    /\ sent = <<>>

\* ---- C11 ----------------------------------------------------------------
\* C11: no route.  A data packet whose destination no neighbor set holds is
\* dropped: nothing is sent on any port, the table stays as it was, the
\* Announcer is not invoked and nothing is raised.
C11_NoRoute ==
    [][ (IsData(rx') /\ Holders(rx'.packet.dst) = {}) =>
          /\ sent' = <<>>
          /\ routingTable' = routingTable
          /\ keyOrder' = keyOrder
          /\ announced' = 0
          /\ ~raised' ]_vars

\* a data packet for a destination held by no set was dropped while the
\* table had a neighbor
C11_Witness ==
    /\ IsData(rx)
    /\ Holders(rx.packet.dst) = {}
    /\ Keys(routingTable) # {}
    /\ sent = <<>>

\* ---- C12 ----------------------------------------------------------------
\* C12: redundant link-down.  A link-down for a router that is no key of the
\* table leaves the table as it was, invokes no Announcer, sends nothing and
\* raises nothing.
C12_RedundantLinkDown ==
    [][ (IsLinkDown(rx') /\ rx'.packet.src \notin Keys(routingTable)) =>
          /\ routingTable' = routingTable
          /\ keyOrder' = keyOrder
          /\ announced' = 0
          /\ sent' = <<>>
          /\ ~raised' ]_vars

\* a link-down for an absent router was handled while another neighbor was
\* in the table
C12_Witness ==
    /\ IsLinkDown(rx)
    /\ announced = 0
    /\ rx.packet.src \notin Keys(routingTable)
    /\ Keys(routingTable) # {}

\* ---- C13 ----------------------------------------------------------------
\* C13: stored distance.  In every reachable state, every destination D
\* other than N in the route set of a neighbor N was advertised by N since
\* N's most recent link-up, and its stored distance is the smallest distance
\* N advertised for it since then plus the distance of that link-up.
C13_StoredDistance ==
    \A N \in Keys(routingTable) :
        \A D \in DOMAIN routingTable[N] \ {N} :
            /\ N \in DOMAIN advertised
            /\ N \in DOMAIN linkUp
            /\ D \in DOMAIN advertised[N]
            /\ routingTable[N][D][1] = advertised[N][D] + linkUp[N][1]

\* N advertised for D a distance above the smallest it advertised before
C13_Witness ==
    /\ IsUpdate(rx)
    /\ rx.packet.src \in Keys(routingTable)
    /\ \E D \in DOMAIN rx.packet.paths \ {rx.packet.src} :
          /\ D \in DOMAIN routingTable[rx.packet.src]
          /\ rx.packet.paths[D] > advertised[rx.packet.src][D]

\* ---- C14 ----------------------------------------------------------------
\* the packets and tables of the scenario
LinkUpOfA == [kind |-> "discovery", src |-> "A", is_link_up |-> TRUE,
              latency |-> 1]
UpdateOfA == [kind |-> "update", src |-> "A",
              paths |-> [d \in {"B"} |-> 2]]
EmptyAdvertisement == [kind |-> "update", port |-> 1, paths |-> <<>>]
TableAfterLinkUp == [n \in {"A"} |-> [d \in {"A"} |-> <<1, 1>>]]
TableAfterUpdate ==
    [n \in {"A"} |->
        [d \in {"A", "B"} |-> IF d = "A" THEN <<1, 1>> ELSE <<3, 1>>]]

\* C14: end-to-end scenario.  From the empty table, link-up(A, 1, port 1)
\* makes the table {A: {A: (1,1)}} and sends exactly one advertisement, out
\* port 1, with no entries; the advertisement {(B, 2)} of A that follows on
\* port 1 makes the table {A: {A: (1,1), B: (3,1)}} and again sends exactly
\* one advertisement, out port 1, with no entries.
C14_Scenario ==
    [][ /\ (routingTable = <<>> /\ rx' = [packet |-> LinkUpOfA, port |-> 1])
              => /\ routingTable' = TableAfterLinkUp
                 /\ sent' = <<EmptyAdvertisement>>
        /\ (/\ rx = [packet |-> LinkUpOfA, port |-> 1]
            /\ routingTable = TableAfterLinkUp
            /\ rx' = [packet |-> UpdateOfA, port |-> 1])
              => /\ routingTable' = TableAfterUpdate
                 /\ sent' = <<EmptyAdvertisement>> ]_vars

\* the scenario's second event has been handled
C14_Witness ==
    /\ rx = [packet |-> UpdateOfA, port |-> 1]
    /\ routingTable = TableAfterUpdate
    /\ advertised = [n \in {"A"} |-> [d \in {"B"} |-> 2]]
    /\ announced = 1
    /\ sent = <<EmptyAdvertisement>>

\* ---- C15 ----------------------------------------------------------------
\* C15: additive merge.  Handling an advertisement of N removes no
\* destination from N's route set, leaves the routes of the destinations it
\* does not list as they were, changes no other neighbor's route set and
\* neither adds nor removes a key.
C15_AdditiveMerge ==
    [][ IsUpdate(rx') =>
          /\ Keys(routingTable') = Keys(routingTable)
          /\ keyOrder' = keyOrder
          /\ \A k \in Keys(routingTable) \ {rx'.packet.src} :
                routingTable'[k] = routingTable[k]
          /\ rx'.packet.src \in Keys(routingTable) =>
                /\ DOMAIN routingTable[rx'.packet.src]
                      \subseteq DOMAIN routingTable'[rx'.packet.src]
                /\ \A d \in DOMAIN routingTable[rx'.packet.src]
                              \ DOMAIN rx'.packet.paths :
                      routingTable'[rx'.packet.src][d]
                          = routingTable[rx'.packet.src][d] ]_vars

\* an advertisement of N changed N's set without listing a destination N
\* advertised before, which is still there, while another neighbor holds
\* learned routes
C15_Witness ==
    /\ IsUpdate(rx)
    /\ updated
    /\ \E d \in DOMAIN routingTable[rx.packet.src] \ {rx.packet.src} :
          d \notin DOMAIN rx.packet.paths
    /\ \E k \in Keys(routingTable) \ {rx.packet.src} :
          DOMAIN routingTable[k] = WideDests

\* ---- C16 ----------------------------------------------------------------
\* C16: announcements reflect the table after the event.  Every entry
\* (dest, distance) of an advertisement sent while handling an event is a
\* destination some set of the table after the event holds, with the minimum
\* stored distance over that table; after a link-down of N as many
\* advertisements are sent as keys remain, each out the port of a remaining
\* neighbor, and none lists a destination that only N's removed set held.
C16_PostMutation ==
    announced = 1 =>
        /\ \A i \in 1..Len(sent) :
              \A d \in DOMAIN sent[i].paths :
                  /\ Holders(d) # {}
                  /\ sent[i].paths[d] = MinDistance(d)
        /\ IsLinkDown(rx) =>
              /\ Len(sent) = Cardinality(Keys(routingTable))
              /\ \A i \in 1..Len(sent) :
                    /\ \E n \in Keys(routingTable) :
                          sent[i].port = SelfPort(n)
                    /\ DOMAIN sent[i].paths \cap lostDests = {}

\* a link-down removed the only set holding some destination and an
\* advertisement with entries went to the neighbor that remains
C16_Witness ==
    /\ IsLinkDown(rx)
    /\ announced = 1
    /\ lostDests # {}
    /\ Len(sent) = 1

\* ---- C17 ----------------------------------------------------------------
\* C17: monotone routes.  Over any step that is not a link-up or link-down
\* of N, every destination of N's route set stays in it and its stored
\* distance does not increase.
C17_Monotone ==
    [][ \A N \in Keys(routingTable) :
          ~(rx'.packet.kind = "discovery" /\ rx'.packet.src = N) =>
              /\ N \in Keys(routingTable')
              /\ \A D \in DOMAIN routingTable[N] :
                    /\ D \in DOMAIN routingTable'[N]
                    /\ routingTable'[N][D][1] <= routingTable[N][D][1] ]_vars

\* an advertisement of N offered, for a destination already stored, a
\* candidate above the stored distance
C17_Witness ==
    /\ IsUpdate(rx)
    /\ rx.packet.src \in Keys(routingTable)
    /\ \E D \in DOMAIN rx.packet.paths \ {rx.packet.src} :
          /\ routingTable[rx.packet.src][D][1] < Candidate(rx, D)
          /\ advertised[rx.packet.src][D] < rx.packet.paths[D]

\* ---- C18 ----------------------------------------------------------------
DistinctPorts ==
    \A N, M \in Keys(routingTable) : N # M => SelfPort(N) # SelfPort(M)

\* C18: port consistency.  When every advertisement of a neighbor arrives on
\* the port of that neighbor's most recent link-up, every entry of N's route
\* set carries the port of N's self-entry; and when the neighbors have
\* pairwise distinct ports, the advertisement sent to N omits exactly the
\* destinations whose winning route (minimum distance, first neighbor of
\* the table on ties) lies in N's own route set.
C18_PortConsistency ==
    /\ \A N \in Keys(routingTable) :
          \A D \in DOMAIN routingTable[N] :
              routingTable[N][D][2] = SelfPort(N)
    /\ (announced = 1 /\ DistinctPorts) =>
          \A N \in Keys(routingTable) :
              \A i \in 1..Len(sent) :
                  sent[i].port = SelfPort(N) =>
                      DOMAIN sent[i].paths =
                          {d \in Routers :
                              Holders(d) # {} /\ BestHolder(d) # N}

\* two neighbors on distinct ports; the advertisement to one of them omits
\* a destination it advertised itself and lists the other neighbor
C18_Witness ==
    /\ announced = 1
    /\ DistinctPorts
    /\ \E N, M \in Keys(routingTable) :
          /\ N # M
          /\ BestHolder(M) = N
          /\ BestHolder(N) = N
          /\ \E i \in 1..Len(sent) :
                /\ sent[i].port = SelfPort(M)
                /\ DOMAIN sent[i].paths = {N, M}
          /\ \E i \in 1..Len(sent) :
                /\ sent[i].port = SelfPort(N)
                /\ DOMAIN sent[i].paths = {}

\* ---- C19 ----------------------------------------------------------------
\* C19: quiescence.  In every behaviour in which link-status packets
\* eventually stop arriving, the Announcer is eventually never invoked
\* again: only finitely many steps send an advertisement, whatever stream of
\* advertisements and data packets continues to arrive.
C19_Quiescence ==
    <>[][rx'.packet.kind # "discovery"]_vars => <>[][announced' = 0]_vars

\* the last advertisement that can change the table has been merged and
\* announced: both neighbors hold every destination at the smallest
\* distance an advertisement can give it
C19_Witness ==
    /\ IsUpdate(rx)
    /\ announced = 1
    /\ \A N \in Routers :
          /\ N \in Keys(routingTable)
          /\ \A D \in Routers \ {N} :
                /\ D \in DOMAIN routingTable[N]
                /\ routingTable[N][D][1] = linkUp[N][1]
====
